---- MODULE Spec2Model ----
(***************************************************************************)
(* The Waveshare 1.02 inch e-paper SPI driver (src/pi/e_paper_ws_1in02.rs) *)
(* as a state machine.  A Paper owns the power, reset, data/command and    *)
(* busy pins and the SPI bus.  Every public operation is a straight-line   *)
(* program of primitive steps (drive a pin, pause, write a buffer to the   *)
(* bus, wait while busy); the machine executes one primitive per step and  *)
(* records what reached the pins and the bus in `log`.                     *)
(***************************************************************************)
EXTENDS Integers, Sequences, FiniteSets, TLC

(***************************************************************************)
(* Bounds of the model.                                                    *)
(***************************************************************************)
\* Most polls of one call that the busy pin may answer Low.
MaxLowReads == 6
\* Longest timeout (ms) handed to await_busy(Some(d)).
MaxTimeout == 120

(***************************************************************************)
(* Program constants.                                                      *)
(***************************************************************************)
WIDTH == 80
HEIGHT == 128
AWAIT_BUSY_MS == 50
CMD_BZ_QUERY == <<\h71>>
CMD_TO_DISPLAY == <<\h12>>
CMD_LUT_W_REG == <<\h23>>
CMD_LUT_B_REG == <<\h24>>

PART_LUT_W_REG_DATA ==
    << \h60, \h01, \h01, \h00, \h00, \h01,
       \h80, \h1f, \h00, \h00, \h00, \h01,
       \h00, \h00, \h00, \h00, \h00, \h00,
       \h00, \h00, \h00, \h00, \h00, \h00,
       \h00, \h00, \h00, \h00, \h00, \h00,
       \h00, \h00, \h00, \h00, \h00, \h00,
       \h00, \h00, \h00, \h00, \h00, \h00 >>

PART_LUT_B_REG_DATA ==
    << \h90, \h01, \h01, \h00, \h00, \h01,
       \h40, \h1f, \h00, \h00, \h00, \h01,
       \h00, \h00, \h00, \h00, \h00, \h00,
       \h00, \h00, \h00, \h00, \h00, \h00,
       \h00, \h00, \h00, \h00, \h00, \h00,
       \h00, \h00, \h00, \h00, \h00, \h00,
       \h00, \h00, \h00, \h00, \h00, \h00 >>

FULL_LUT_W_REG_DATA ==
    << \h60, \h5A, \h5A, \h00, \h00, \h01,
       \h00, \h00, \h00, \h00, \h00, \h00,
       \h00, \h00, \h00, \h00, \h00, \h00,
       \h00, \h00, \h00, \h00, \h00, \h00,
       \h00, \h00, \h00, \h00, \h00, \h00,
       \h00, \h00, \h00, \h00, \h00, \h00,
       \h00, \h00, \h00, \h00, \h00, \h00 >>

FULL_LUT_B_REG_DATA ==
    << \h90, \h5A, \h5A, \h00, \h00, \h01,
       \h00, \h00, \h00, \h00, \h00, \h00,
       \h00, \h00, \h00, \h00, \h00, \h00,
       \h00, \h00, \h00, \h00, \h00, \h00,
       \h00, \h00, \h00, \h00, \h00, \h00,
       \h00, \h00, \h00, \h00, \h00, \h00,
       \h00, \h00, \h00, \h00, \h00, \h00 >>

\* Option<Duration>: None is the empty sequence, Some(d) is <<d>> (d in ms).
None == << >>
Some(d) == <<d>>

(***************************************************************************)
(* The Bytes trait: the byte view of a payload.                            *)
(***************************************************************************)
\* impl Bytes for u8: a slice of length one holding the byte.
u8_bytes(b) == <<b>>
\* impl Bytes for &[u8], Vec<u8>, &[u8; 1280]: the bytes themselves.
slice_bytes(s) == s

(***************************************************************************)
(* Primitive steps.  send_cmd and send_data drive the data/command pin and *)
(* then write the payload's bytes to the bus.                              *)
(***************************************************************************)
set_high(pin) == [op |-> "pin", pin |-> pin, lvl |-> "High"]
set_low(pin) == [op |-> "pin", pin |-> pin, lvl |-> "Low"]
await_ms(ms) == [op |-> "sleep", ms |-> ms]
send_cmd(cmd) == [op |-> "spi", dc |-> "Low", role |-> "cmd", buf |-> cmd]
\* send_data that leaves the data/command pin low.
send_data_dc_low(data) == [op |-> "spi", dc |-> "Low", role |-> "data", buf |-> data]
send_data(data) == [op |-> "spi", dc |-> "High", role |-> "data", buf |-> data]
\* await_busy given a deadline whatever its caller asked for.
await_busy_timed(timeout_opt, unwrap) == [op |-> "await", t |-> Some(0), unwrap |-> unwrap]
\* await_busy(timeout_opt); `unwrap` tells whether the caller unwraps the result.
await_busy(timeout_opt, unwrap) == [op |-> "await", t |-> timeout_opt, unwrap |-> unwrap]

\* for _ in 0..n { step }
Repeat(n, step) == [i \in 1..n |-> step]

reset ==
    << set_high("rs"), await_ms(200), set_low("rs"), await_ms(2),
       set_high("rs"), await_ms(200) >>

\* turn_on_display waiting for the panel before it asks for the refresh.
turn_on_display_waits_first ==
    << await_busy(None, TRUE), send_cmd(CMD_TO_DISPLAY), await_ms(10) >>

turn_on_display ==
    << send_cmd(CMD_TO_DISPLAY), await_ms(10), await_busy(None, TRUE) >>

\* set_full_reg loading the partial-refresh tables.
set_full_reg_partial ==
    <<send_cmd(CMD_LUT_W_REG)>>
    \o [i \in 1..42 |-> send_data(u8_bytes(PART_LUT_W_REG_DATA[i]))]
    \o <<send_cmd(CMD_LUT_B_REG)>>
    \o [i \in 1..42 |-> send_data(u8_bytes(PART_LUT_B_REG_DATA[i]))]

\* set_full_reg writing the B table before the W table.
set_full_reg_swapped ==
    <<send_cmd(CMD_LUT_B_REG)>>
    \o [i \in 1..42 |-> send_data(u8_bytes(FULL_LUT_B_REG_DATA[i]))]
    \o <<send_cmd(CMD_LUT_W_REG)>>
    \o [i \in 1..42 |-> send_data(u8_bytes(FULL_LUT_W_REG_DATA[i]))]

set_full_reg ==
    <<send_cmd(CMD_LUT_W_REG)>>
    \o [i \in 1..42 |-> send_data(u8_bytes(FULL_LUT_W_REG_DATA[i]))]
    \o <<send_cmd(CMD_LUT_B_REG)>>
    \o [i \in 1..42 |-> send_data(u8_bytes(FULL_LUT_B_REG_DATA[i]))]

set_part_reg ==
    <<send_cmd(CMD_LUT_W_REG)>>
    \o [i \in 1..42 |-> send_data(u8_bytes(PART_LUT_W_REG_DATA[i]))]
    \o <<send_cmd(CMD_LUT_B_REG)>>
    \o [i \in 1..42 |-> send_data(u8_bytes(PART_LUT_B_REG_DATA[i]))]

on ==
    <<set_high("pw")>>
    \o reset
    \o << send_cmd(u8_bytes(\hD2)), send_data(u8_bytes(\h3F)),
          send_cmd(u8_bytes(\h00)), send_data(u8_bytes(\h6F)),
          send_cmd(u8_bytes(\h01)), send_data(u8_bytes(\h03)),
          send_data(u8_bytes(\h00)), send_data(u8_bytes(\h2b)),
          send_data(u8_bytes(\h2b)),
          send_cmd(u8_bytes(\h06)), send_data(u8_bytes(\h3f)),
          send_cmd(u8_bytes(\h2A)), send_data(u8_bytes(\h00)),
          send_data(u8_bytes(\h00)),
          send_cmd(u8_bytes(\h30)), send_data(u8_bytes(\h17)),
          send_cmd(u8_bytes(\h50)), send_data(u8_bytes(\h57)),
          send_cmd(u8_bytes(\h60)), send_data(u8_bytes(\h22)),
          send_cmd(u8_bytes(\h61)), send_data(u8_bytes(\h50)),
          send_data(u8_bytes(\h80)),
          send_cmd(u8_bytes(\h82)), send_data(u8_bytes(\h12)),
          send_cmd(u8_bytes(\he3)), send_data(u8_bytes(\h33)) >>
    \o set_full_reg
    \o <<send_cmd(u8_bytes(\h04)), await_busy(None, TRUE)>>


(***************************************************************************)
(* display(img).  The body rasterises a fixed text into a fresh HEIGHT x   *)
(* WIDTH 8-bit grey image and sends that; `img` is never read.             *)
(***************************************************************************)
\* Pixels inked by draw_text_mut(.., 2, 0, 12 px, font, "1234abcd").  The glyph
\* shapes are font data held outside the driver; a fixed stand-in stroke in
\* the text box is used, as (x, y) pairs.
TextInk == {<<x, 6>> : x \in 2..9}

\* ImageBuffer::from_pixel(HEIGHT, WIDTH, Luma([255])) after draw_text_mut with
\* Luma([0]), then into_raw(): one byte per pixel, row-major, rows HEIGHT wide.
di ==
    [i \in 1..(HEIGHT * WIDTH) |->
        IF <<(i - 1) % HEIGHT, (i - 1) \div HEIGHT>> \in TextInk THEN 0 ELSE 255]

\* slice::chunks(n): consecutive pieces of n elements, the last one shorter.
chunks(s, n) ==
    [k \in 1..((Len(s) + n - 1) \div n) |->
        SubSeq(s, (k - 1) * n + 1, IF k * n < Len(s) THEN k * n ELSE Len(s))]

di_chunks == chunks(di, 1280)

display(img) ==
    <<send_cmd(u8_bytes(\h10))>>
    \o Repeat((WIDTH * HEIGHT) \div 8, send_data(u8_bytes(\hff)))
    \o <<send_cmd(u8_bytes(\h13))>>
    \o [k \in 1..Len(di_chunks) |-> send_data(slice_bytes(di_chunks[k]))]
    \o turn_on_display

\* clear_screen with the two fills exchanged.
clear_screen_swapped ==
    <<send_cmd(u8_bytes(\h10))>>
    \o Repeat((WIDTH * HEIGHT) \div 8, send_data(u8_bytes(\hff)))
    \o <<send_cmd(u8_bytes(\h13))>>
    \o Repeat((WIDTH * HEIGHT) \div 8, send_data(u8_bytes(\h00)))
    \o turn_on_display

clear_screen ==
    <<send_cmd(u8_bytes(\h10))>>
    \o Repeat((WIDTH * HEIGHT) \div 8, send_data(u8_bytes(\h00)))
    \o <<send_cmd(u8_bytes(\h13))>>
    \o Repeat((WIDTH * HEIGHT) \div 8, send_data(u8_bytes(\hff)))
    \o turn_on_display

\* off() returning with the power pin still driven high.
off_keeps_power ==
    << send_cmd(u8_bytes(\h50)), send_data(u8_bytes(\hf7)),
       send_cmd(u8_bytes(\h02)),
       await_busy(None, TRUE),
       send_cmd(u8_bytes(\h07)), send_data(u8_bytes(\hA5)),
       await_ms(2000) >>

\* off sending deep sleep before it waits.
off_sleep_before_wait ==
    << send_cmd(u8_bytes(\h50)), send_data(u8_bytes(\hf7)),
       send_cmd(u8_bytes(\h02)),
       send_cmd(u8_bytes(\h07)), send_data(u8_bytes(\hA5)),
       await_busy(None, TRUE),
       await_ms(2000),
       set_low("pw") >>

off ==
    << send_cmd(u8_bytes(\h50)), send_data(u8_bytes(\hf7)),
       send_cmd(u8_bytes(\h02)),
       await_busy(None, TRUE),
       send_cmd(u8_bytes(\h07)), send_data(u8_bytes(\hA5)),
       await_ms(2000),
       set_low("pw") >>

(***************************************************************************)
(* Inputs of the callers.                                                  *)
(***************************************************************************)
\* Byte payloads handed to display: three full frames and one short buffer.
ImageIds == {"white", "black", "pixel", "short"}

image_bytes(id) ==
    CASE id = "white" -> [i \in 1..((WIDTH * HEIGHT) \div 8) |-> 255]
      [] id = "black" -> [i \in 1..((WIDTH * HEIGHT) \div 8) |-> 0]
      [] id = "pixel" -> [i \in 1..((WIDTH * HEIGHT) \div 8) |-> IF i = 1 THEN 127 ELSE 255]
      [] OTHER -> <<255, 255>>

Durations == 0..MaxTimeout

(***************************************************************************)
(* State.                                                                  *)
(***************************************************************************)
VARIABLES
    life,      \* "absent" | "live" | "released": the Paper value
    panel,     \* "Off" | "Idle": set by the completion of on() and off()
    st,        \* "idle" | "run" | "panicked": the calling thread
    cur,       \* the call in progress (or the last one)
    pc,        \* index of the next primitive step of cur's body
    pcA,       \* position inside await_busy ("none" outside it)
    dead_time, \* await_busy's deadline (ms), -1 when not set
    now,       \* ms elapsed since the call began
    lowReads,  \* Low answers of the busy pin during the call
    ret,       \* result of the last await_busy: "none" | "Ok" | "Err"
    pw_pin,    \* last level driven on the power pin ("Unset" before any)
    rs_pin,    \* last level driven on the reset pin
    dc_pin,    \* last level driven on the data/command pin
    log        \* what the call did to pins and bus, run-length encoded

vars ==
    << life, panel, st, cur, pc, pcA, dead_time, now, lowReads, ret,
       pw_pin, rs_pin, dc_pin, log >>

NoCall == [name |-> "none"]

\* The body of a call.  await_busy is private; it is also entered directly so
\* that both of its variants are exercised on their own.
Body(c) ==
    CASE c.name = "on" -> on
      [] c.name = "display" -> display(image_bytes(c.img))
      [] c.name = "clear_screen" -> clear_screen
      [] c.name = "off" -> off
      [] c.name = "await_busy" -> <<await_busy(c.t, FALSE)>>
      [] OTHER -> << >>

\* The log: each entry is an event and the number of times it occurred in a row.
Emit(l, e) ==
    IF l # << >> /\ l[Len(l)].e = e
    THEN [l EXCEPT ![Len(l)].n = @ + 1]
    ELSE Append(l, [e |-> e, n |-> 1])

PinEvent(pin, lvl) == [k |-> "pin", pin |-> pin, lvl |-> lvl]
SleepEvent(ms) == [k |-> "sleep", ms |-> ms]
\* A bus write: the bytes, the level of the data/command pin when they were
\* written, what the caller sent them as, and whether the write succeeded.
SpiEvent(i, dc, ok) == [k |-> "spi", role |-> i.role, buf |-> i.buf, dc |-> dc, ok |-> ok]
ReadEvent(lvl) == [k |-> "read", lvl |-> lvl]

Init ==
    /\ life = "absent"
    /\ panel = "Off"
    /\ st = "idle"
    /\ cur = NoCall
    /\ pc = 1
    /\ pcA = "none"
    /\ dead_time = -1
    /\ now = 0
    /\ lowReads = 0
    /\ ret = "none"
    /\ pw_pin = "Unset"
    /\ rs_pin = "Unset"
    /\ dc_pin = "Unset"
    /\ log = << >>


(***************************************************************************)
(* Construction, and the callers.                                          *)
(***************************************************************************)
\* Paper::new(): the pins and the bus are acquired; nothing is driven yet.
New ==
    /\ life = "absent"
    /\ life' = "live"
    /\ UNCHANGED << panel, st, cur, pc, pcA, dead_time, now, lowReads, ret,
                    pw_pin, rs_pin, dc_pin, log >>

\* A method of the live Paper is entered; the thread is free (&mut self).
StartCall(c) ==
    /\ life = "live"
    /\ st = "idle"
    /\ st' = "run"
    /\ cur' = c
    /\ pc' = 1
    /\ pcA' = "none"
    /\ dead_time' = -1
    /\ now' = 0
    /\ lowReads' = 0
    /\ ret' = "none"
    /\ log' = << >>
    /\ UNCHANGED << life, panel, pw_pin, rs_pin, dc_pin >>

CallOn == StartCall([name |-> "on"])

CallDisplay == \E img \in ImageIds : StartCall([name |-> "display", img |-> img])

CallClearScreen == StartCall([name |-> "clear_screen"])

CallOff == StartCall([name |-> "off"])

CallAwaitBusy ==
    \E t \in {None} \cup {Some(d) : d \in Durations} :
        StartCall([name |-> "await_busy", t |-> t])

(***************************************************************************)
(* The primitive steps of a running call.                                  *)
(***************************************************************************)
Instr == Body(cur)[pc]

Running == st = "run" /\ pcA = "none" /\ pc <= Len(Body(cur))

\* OutputPin::set_high / set_low on the power or the reset pin.
DrivePin ==
    /\ Running
    /\ Instr.op = "pin"
    /\ IF Instr.pin = "pw"
       THEN pw_pin' = Instr.lvl /\ rs_pin' = rs_pin
       ELSE rs_pin' = Instr.lvl /\ pw_pin' = pw_pin
    /\ log' = Emit(log, PinEvent(Instr.pin, Instr.lvl))
    /\ pc' = pc + 1
    /\ UNCHANGED << life, panel, st, cur, pcA, dead_time, now, lowReads, ret, dc_pin >>

\* await_ms: thread::sleep for ms milliseconds.
Pause ==
    /\ Running
    /\ Instr.op = "sleep"
    /\ now' = now + Instr.ms
    /\ log' = Emit(log, SleepEvent(Instr.ms))
    /\ pc' = pc + 1
    /\ UNCHANGED << life, panel, st, cur, pcA, dead_time, lowReads, ret,
                    pw_pin, rs_pin, dc_pin >>

\* spi_send that logs the error and goes on: the thread keeps running and the
\* statement is not left.
spi_send_goes_on(ok) ==
    IF ok THEN [st |-> "run", life |-> "live", adv |-> 1]
    ELSE [st |-> "run", life |-> "live", adv |-> 0]

\* spi_send: what the result of self._spi.write(buf) does to the thread.  Ok
\* goes on to the next statement; Err panics, and the unwinding releases the
\* Paper.
spi_send(ok) ==
    IF ok THEN [st |-> "run", life |-> "live", adv |-> 1]
    ELSE [st |-> "panicked", life |-> "released", adv |-> 0]

\* send_cmd / send_data: the data/command pin is driven, then spi_send writes
\* the bytes.  A write that fails panics; the unwinding releases the Paper.
SpiSend ==
    /\ Running
    /\ Instr.op = "spi"
    /\ \E ok \in BOOLEAN :
        /\ dc_pin' = Instr.dc
        /\ log' = Emit(log, SpiEvent(Instr, dc_pin', ok))
        /\ pc' = pc + spi_send(ok).adv
        /\ st' = spi_send(ok).st
        /\ life' = spi_send(ok).life
    /\ UNCHANGED << panel, cur, pcA, dead_time, now, lowReads, ret, pw_pin, rs_pin >>

(***************************************************************************)
(* await_busy.                                                             *)
(***************************************************************************)
\* on_busy taking High for busy.
on_busy_inverted(lvl) == lvl = "High"

\* on_busy's reading of the busy pin: Low is busy, High is not.
on_busy(lvl) == lvl = "Low"

\* dead_time = SystemTime::now().add(dur)
deadline(t, dur) == t + dur

\* A deadline test that lets one more poll interval pass.
past_deadline_late(t, dead) == t > dead + AWAIT_BUSY_MS

\* SystemTime::now() > dead_time
past_deadline(t, dead) == t > dead

\* await_busy pausing after its first poll as after the later ones.
after_poll_pause_first(at, busy, timeout_opt) ==
    CASE at = "first" ->
            IF busy THEN (IF timeout_opt = None THEN "sleep" ELSE "check") ELSE "ok"
      [] at = "while" -> IF busy THEN "check" ELSE "ok"
      [] OTHER -> IF busy THEN "sleep" ELSE "ok"

\* await_busy entering its loop whatever the first poll answered.
after_poll_always_loops(at, busy, timeout_opt) ==
    CASE at = "first" -> IF timeout_opt = None THEN "loop" ELSE "while"
      [] at = "while" -> IF busy THEN "check" ELSE "ok"
      [] OTHER -> IF busy THEN "sleep" ELSE "ok"

\* await_busy leaving its loops on a busy poll and staying on an idle one.
after_poll_exits_when_busy(at, busy, timeout_opt) ==
    CASE at = "first" ->
            IF busy THEN (IF timeout_opt = None THEN "loop" ELSE "while") ELSE "ok"
      [] at = "while" -> IF busy THEN "ok" ELSE "check"
      [] OTHER -> IF busy THEN "ok" ELSE "sleep"

\* Where await_busy goes after a poll made at position `at` answered `busy`:
\* "ok" stands for falling through to Ok(()).
after_poll(at, busy, timeout_opt) ==
    CASE at = "first" ->
            IF busy THEN (IF timeout_opt = None THEN "loop" ELSE "while") ELSE "ok"
      [] at = "while" -> IF busy THEN "check" ELSE "ok"
      [] OTHER -> IF busy THEN "sleep" ELSE "ok"

EnterAwait ==
    /\ Running
    /\ Instr.op = "await"
    /\ pcA' = "first"
    /\ UNCHANGED << life, panel, st, cur, pc, dead_time, now, lowReads, ret,
                    pw_pin, rs_pin, dc_pin, log >>

\* One on_busy(): send_cmd(CMD_BZ_QUERY), then the busy pin is read.
OnBusy ==
    /\ st = "run"
    /\ pcA \in {"first", "while", "loop"}
    /\ \E ok \in BOOLEAN, lvl \in {"High", "Low"} :
        LET q == send_cmd(CMD_BZ_QUERY)
            nxt == after_poll(pcA, on_busy(lvl), Instr.t)
        IN  /\ lvl = "Low" => lowReads < MaxLowReads
            /\ ~ok => lvl = "High"
            /\ dc_pin' = q.dc
            /\ IF ~ok
               THEN /\ log' = Emit(log, SpiEvent(q, dc_pin', FALSE))
                    /\ st' = spi_send(FALSE).st /\ life' = spi_send(FALSE).life
                    /\ UNCHANGED << pc, pcA, dead_time, lowReads, ret >>
               ELSE /\ log' = Emit(Emit(log, SpiEvent(q, dc_pin', TRUE)), ReadEvent(lvl))
                    /\ lowReads' = IF lvl = "Low" THEN lowReads + 1 ELSE lowReads
                    /\ dead_time' = IF pcA = "first" /\ nxt = "while"
                                    THEN deadline(now, Instr.t[1]) ELSE dead_time
                    /\ IF nxt = "ok"
                       THEN pcA' = "none" /\ ret' = "Ok" /\ pc' = pc + 1
                       ELSE pcA' = nxt /\ ret' = ret /\ pc' = pc
                    /\ UNCHANGED << st, life >>
    /\ UNCHANGED << panel, cur, now, pw_pin, rs_pin >>

\* The timed loop's body after a busy poll: fail past the deadline, else pause.
TimedCheck ==
    /\ st = "run"
    /\ pcA = "check"
    /\ IF past_deadline(now, dead_time)
       THEN /\ ret' = "Err"
            /\ pcA' = "none"
            /\ IF Instr.unwrap
               THEN pc' = pc /\ st' = "panicked" /\ life' = "released"
               ELSE pc' = pc + 1 /\ st' = st /\ life' = life
            /\ UNCHANGED << now, log >>
       ELSE /\ now' = now + AWAIT_BUSY_MS
            /\ log' = Emit(log, SleepEvent(AWAIT_BUSY_MS))
            /\ pcA' = "while"
            /\ UNCHANGED << ret, pc, st, life >>
    /\ UNCHANGED << panel, cur, dead_time, lowReads, pw_pin, rs_pin, dc_pin >>

\* The untimed loop's pause after a busy poll.
UntimedSleep ==
    /\ st = "run"
    /\ pcA = "sleep"
    /\ now' = now + AWAIT_BUSY_MS
    /\ log' = Emit(log, SleepEvent(AWAIT_BUSY_MS))
    /\ pcA' = "loop"
    /\ UNCHANGED << life, panel, st, cur, pc, dead_time, lowReads, ret,
                    pw_pin, rs_pin, dc_pin >>

(***************************************************************************)
(* Return and destruction.                                                 *)
(***************************************************************************)
\* The call returns.  The panel is up once on() has returned and down once
\* off() has returned.
Return ==
    /\ st = "run"
    /\ pcA = "none"
    /\ pc > Len(Body(cur))
    /\ st' = "idle"
    /\ panel' = CASE cur.name = "on" -> "Idle"
                  [] cur.name = "off" -> "Off"
                  [] OTHER -> panel
    /\ UNCHANGED << life, cur, pc, pcA, dead_time, now, lowReads, ret,
                    pw_pin, rs_pin, dc_pin, log >>

\* The Paper goes out of scope.  Paper implements no Drop: its fields are
\* released and no method of Paper runs.
Drop ==
    /\ life = "live"
    /\ st = "idle"
    /\ life' = "released"
    /\ cur' = [name |-> "drop"]
    /\ log' = << >>
    /\ UNCHANGED << panel, st, pc, pcA, dead_time, now, lowReads, ret,
                    pw_pin, rs_pin, dc_pin >>

Step ==
    \/ DrivePin
    \/ Pause
    \/ SpiSend
    \/ EnterAwait
    \/ OnBusy
    \/ TimedCheck
    \/ UntimedSleep
    \/ Return

Next ==
    \/ New
    \/ CallOn
    \/ CallDisplay
    \/ CallClearScreen
    \/ CallOff
    \/ CallAwaitBusy
    \/ Step
    \/ Drop

Spec == Init /\ [][Next]_vars

\* The callers whose busy wait begins within a few steps of the call: on, off
\* and await_busy itself.  display and clear_screen enter the same await_busy,
\* through turn_on_display, after their two frames.
WaitNext ==
    \/ New
    \/ CallOn
    \/ CallOff
    \/ CallAwaitBusy
    \/ Step
    \/ Drop

\* The calling thread keeps running: a started call takes its next step.
FairSpec == Init /\ [][WaitNext]_vars /\ WF_vars(Step)


(***************************************************************************)
(* The hardware test test_display: one Paper taken through its whole life. *)
(***************************************************************************)
\* The calls of test_display, in order.  (Its thread::sleep between display
\* and the second clear_screen touches neither the pins nor the bus.)
test_display == << "on", "clear_screen", "display", "clear_screen", "off" >>

\* How many calls of test_display have been started: each call carries its
\* position k.
TestPos == IF cur.name = "none" THEN 0 ELSE cur.k

\* The next statement of test_display is entered once the previous returned.
TestCall ==
    /\ life = "live"
    /\ st = "idle"
    /\ TestPos < Len(test_display)
    /\ LET k == TestPos + 1
       IN  IF test_display[k] = "display"
           THEN \E img \in ImageIds :
                    StartCall([name |-> "display", img |-> img, k |-> k])
           ELSE StartCall([name |-> test_display[k], k |-> k])

\* The end of test_display: paper goes out of scope.
TestDrop ==
    /\ life = "live"
    /\ st = "idle"
    /\ TestPos = Len(test_display)
    /\ Drop

\* The steps the four operations are made of; none of them has a timed wait.
OpStep ==
    \/ DrivePin
    \/ Pause
    \/ SpiSend
    \/ EnterAwait
    \/ OnBusy
    \/ UntimedSleep
    \/ Return

TestNext ==
    \/ New
    \/ TestCall
    \/ OpStep
    \/ TestDrop

\* The test's thread keeps running until the test ends or panics.
LifecycleSpec == Init /\ [][TestNext]_vars /\ WF_vars(TestNext)

(***************************************************************************)
(* Reading the log.                                                        *)
(***************************************************************************)
RECURSIVE Expand(_)
\* The events of a log, one element per occurrence.
Expand(l) ==
    IF l = << >> THEN << >>
    ELSE Expand(SubSeq(l, 1, Len(l) - 1)) \o [i \in 1..l[Len(l)].n |-> l[Len(l)].e]

IsSleep(e) == e.k = "sleep"
IsSpi(e) == e.k = "spi"
IsRead(e) == e.k = "read"
IsQuery(e) == IsSpi(e) /\ e.buf = <<\h71>>
IsPoll(e) == IsQuery(e) \/ IsRead(e)

\* The pin and bus operations of a log, pauses left out.
PinBus(l) == SelectSeq(Expand(l), LAMBDA e : ~IsSleep(e))

\* A successful write of opcode b with the data/command pin low, and of data
\* byte b with the pin high.
CmdWrite(b) == [k |-> "spi", role |-> "cmd", buf |-> <<b>>, dc |-> "Low", ok |-> TRUE]
DataWrite(b) == [k |-> "spi", role |-> "data", buf |-> <<b>>, dc |-> "High", ok |-> TRUE]
Frame(c, ds) == <<CmdWrite(c)>> \o [i \in 1..Len(ds) |-> DataWrite(ds[i])]

\* The call named `name` is running or has returned, and no write has failed.
InCall(name) == cur.name = name /\ st # "panicked"
Returned(name) == cur.name = name /\ st = "idle" /\ life = "live"

(***************************************************************************)
(* C1.  on() performs, in this order and with nothing else in between:     *)
(* power pin high; reset pin high, low, high; the frames D2/3F, 00/6F,     *)
(* 01/03 00 2B 2B, 06/3F, 2A/00 00, 30/17, 50/57, 60/22, 61/50 80, 82/12,  *)
(* E3/33; 0x23 with the 42 bytes of the full-refresh W table; 0x24 with    *)
(* the 42 bytes of the full-refresh B table; 0x04; and only then the busy  *)
(* wait.                                                                   *)
(***************************************************************************)
OnScript ==
    << PinEvent("pw", "High"),
       PinEvent("rs", "High"), PinEvent("rs", "Low"), PinEvent("rs", "High") >>
    \o Frame(\hD2, <<\h3F>>)
    \o Frame(\h00, <<\h6F>>)
    \o Frame(\h01, <<\h03, \h00, \h2B, \h2B>>)
    \o Frame(\h06, <<\h3F>>)
    \o Frame(\h2A, <<\h00, \h00>>)
    \o Frame(\h30, <<\h17>>)
    \o Frame(\h50, <<\h57>>)
    \o Frame(\h60, <<\h22>>)
    \o Frame(\h61, <<\h50, \h80>>)
    \o Frame(\h82, <<\h12>>)
    \o Frame(\hE3, <<\h33>>)
    \o Frame(\h23, FULL_LUT_W_REG_DATA)
    \o Frame(\h24, FULL_LUT_B_REG_DATA)
    \o Frame(\h04, << >>)

C1_OnSequence ==
    InCall("on") =>
        LET ops == PinBus(log)
            n == Len(OnScript)
        IN  /\ \A i \in 1..Len(ops) :
                IF i <= n THEN ops[i] = OnScript[i] ELSE IsPoll(ops[i])
            /\ Len(ops) > n => IsQuery(ops[n + 1])
            /\ st = "idle" => Len(ops) > n

\* on() has returned after a busy wait that polled more than once.
C1_Witness == Returned("on") /\ lowReads > 0 /\ Len(PinBus(log)) > Len(OnScript)

(***************************************************************************)
(* C2.  At every bus write the data/command pin is low when the bytes are  *)
(* an opcode (the 0x71 busy queries included) and high when they are       *)
(* parameter or image data.                                                *)
(***************************************************************************)
C2_DcMatchesRole ==
    \A i \in 1..Len(log) :
        IsSpi(log[i].e) =>
            /\ log[i].e.role = "cmd" <=> log[i].e.dc = "Low"
            /\ log[i].e.role = "data" <=> log[i].e.dc = "High"
            /\ IsQuery(log[i].e) => log[i].e.role = "cmd"

\* A clear_screen that wrote opcodes, frame data and busy queries.
C2_Witness ==
    /\ Returned("clear_screen")
    /\ lowReads > 0
    /\ \E i \in 1..Len(log) : IsSpi(log[i].e) /\ log[i].e.role = "data" /\ log[i].n > 1
    /\ \E i \in 1..Len(log) : IsQuery(log[i].e)

(***************************************************************************)
(* C3.  Whenever a Paper is destroyed, in whatever state, the off()        *)
(* shutdown sequence runs exactly once before the pins and the bus are     *)
(* released, so the run ends with the power pin driven low.                *)
(***************************************************************************)
OffWrites == Frame(\h50, <<\hF7>>) \o Frame(\h02, << >>) \o Frame(\h07, <<\hA5>>)

\* The destruction ran the shutdown writes and left the power pin low.
ShutdownRanAtDrop ==
    /\ cur.name = "drop"
    /\ SelectSeq(PinBus(log), LAMBDA e : IsSpi(e) /\ ~IsQuery(e)) = OffWrites
    /\ pw_pin = "Low"

C3_OffOnDestroy == life = "released" => ShutdownRanAtDrop


(***************************************************************************)
(* Frames of a display or clear_screen call.                               *)
(***************************************************************************)
\* Index of the first log entry that is the write of opcode c (0 if none).
CmdAt(c) ==
    IF \E i \in 1..Len(log) : log[i].e = CmdWrite(c)
    THEN CHOOSE i \in 1..Len(log) :
            /\ log[i].e = CmdWrite(c)
            /\ \A j \in 1..(i - 1) : log[j].e # CmdWrite(c)
    ELSE 0

RECURSIVE DataFrom(_)
\* The data bytes written from log entry i on, up to the next opcode.
DataFrom(i) ==
    IF i > Len(log) \/ ~IsSpi(log[i].e) \/ log[i].e.role # "data" THEN << >>
    ELSE LET RECURSIVE Times(_)
             Times(k) == IF k = 0 THEN << >> ELSE log[i].e.buf \o Times(k - 1)
         IN  Times(log[i].n) \o DataFrom(i + 1)

RECURSIVE DataLenFrom(_)
\* The number of data bytes written from log entry i on, up to the next opcode.
DataLenFrom(i) ==
    IF i > Len(log) \/ ~IsSpi(log[i].e) \/ log[i].e.role # "data" THEN 0
    ELSE log[i].n * Len(log[i].e.buf) + DataLenFrom(i + 1)

RefreshSent == CmdAt(\h12) > 0

(***************************************************************************)
(* C4.  For every display(image), the data written after 0x10 and the data *)
(* written after 0x13 each total WIDTH*HEIGHT/8 = 1280 bytes before the    *)
(* refresh command 0x12 is sent.                                           *)
(***************************************************************************)
C4_FrameLengths ==
    InCall("display") /\ RefreshSent =>
        /\ DataLenFrom(CmdAt(\h10) + 1) = (WIDTH * HEIGHT) \div 8
        /\ DataLenFrom(CmdAt(\h13) + 1) = (WIDTH * HEIGHT) \div 8
        /\ (WIDTH * HEIGHT) \div 8 = 1280

(***************************************************************************)
(* C5.  The data display(image) transmits after 0x13 is the device buffer  *)
(* of the image the caller supplied: different images give different data, *)
(* the same image the same data.                                           *)
(***************************************************************************)
C5_DataFromImage ==
    InCall("display") /\ RefreshSent =>
        DataFrom(CmdAt(\h13) + 1) = image_bytes(cur.img)

(***************************************************************************)
(* C6.  clear_screen() transmits, in order: 0x10, 1280 data bytes 0x00,    *)
(* 0x13, 1280 data bytes 0xFF, the refresh command 0x12, then a busy wait, *)
(* with no other command in between.                                       *)
(***************************************************************************)
ClearScript ==
    << [e |-> CmdWrite(\h10), n |-> 1], [e |-> DataWrite(\h00), n |-> 1280],
       [e |-> CmdWrite(\h13), n |-> 1], [e |-> DataWrite(\hFF), n |-> 1280],
       [e |-> CmdWrite(\h12), n |-> 1] >>

C6_ClearSequence ==
    InCall("clear_screen") =>
        LET l == SelectSeq(log, LAMBDA x : ~IsSleep(x.e))
            m == Len(ClearScript)
        IN  /\ \A i \in 1..Len(l) :
                IF i <= m
                THEN /\ l[i].e = ClearScript[i].e
                     /\ l[i].n <= ClearScript[i].n
                     /\ i < Len(l) => l[i].n = ClearScript[i].n
                ELSE IsPoll(l[i].e)
            /\ Len(l) > m => IsQuery(l[m + 1].e)
            /\ st = "idle" => Len(l) > m /\ l[Len(l)].e = ReadEvent("High")

\* clear_screen has returned after both frames, the refresh and a wait that
\* found the panel busy at least once.
C6_Witness ==
    /\ Returned("clear_screen")
    /\ lowReads > 0
    /\ DataLenFrom(CmdAt(\h10) + 1) = 1280
    /\ DataLenFrom(CmdAt(\h13) + 1) = 1280

(***************************************************************************)
(* C7.  As claimed: off() transmits the whole shutdown sequence (0x50 with *)
(* 0xF7, 0x02, 0x07 with 0xA5) before it waits for not-busy, and writes    *)
(* nothing but busy queries after the wait began.                          *)
(***************************************************************************)
C7_ShutdownBeforeWait ==
    InCall("off") =>
        LET ops == PinBus(log)
        IN  \A i \in 1..Len(ops) :
                IsQuery(ops[i]) =>
                    /\ SelectSeq(SubSeq(ops, 1, i - 1),
                                 LAMBDA e : IsSpi(e) /\ ~IsQuery(e)) = OffWrites
                    /\ \A j \in (i + 1)..Len(ops) : IsSpi(ops[j]) => IsQuery(ops[j])

(***************************************************************************)
(* C7, amended.  off() transmits 0x50 with data 0xF7 and power-off 0x02,   *)
(* then waits for not-busy, and only after a poll has read not-busy does   *)
(* it transmit deep-sleep 0x07 with data 0xA5; it then pauses 2000 ms and  *)
(* its last action is driving the power pin low.                           *)
(***************************************************************************)
OffScript == OffWrites \o <<PinEvent("pw", "Low")>>

C7_OffSequence ==
    InCall("off") =>
        LET ops == PinBus(log)
            acts == SelectSeq(ops, LAMBDA e : ~IsPoll(e))
            Before(i, e) == \E j \in 1..(i - 1) : ops[j] = e
        IN  /\ Len(acts) <= Len(OffScript)
            /\ acts = SubSeq(OffScript, 1, Len(acts))
            /\ \A i \in 1..Len(ops) :
                /\ IsPoll(ops[i]) => Before(i, CmdWrite(\h02)) /\ ~Before(i, CmdWrite(\h07))
                /\ ops[i] = CmdWrite(\h07) => i > 1 /\ ops[i - 1] = ReadEvent("High")
            /\ st = "idle" =>
                /\ acts = OffScript
                /\ pw_pin = "Low"
                /\ Len(log) >= 2
                /\ log[Len(log)].e = PinEvent("pw", "Low")
                /\ log[Len(log) - 1].e = SleepEvent(2000)

\* off() has returned after a wait that found the panel busy at least once.
C7_Witness ==
    /\ Returned("off")
    /\ lowReads > 0
    /\ \E i \in 1..Len(log) : log[i].e = CmdWrite(\h07)


(***************************************************************************)
(* C8.  await_busy(None) returns Ok at the first poll that reads the busy  *)
(* pin High, however many polls read Low before: no busy query and no      *)
(* pause follows that poll, and a first poll that reads High is the only   *)
(* query of the call.  As the pin eventually reads High, the call          *)
(* eventually returns (a failed bus write aside, which panics).            *)
(***************************************************************************)
InUntimedWait == st = "run" /\ pcA # "none" /\ Instr.t = None

C8_ReturnsAtFirstHigh ==
    /\ (cur.name = "await_busy" /\ cur.t = None /\ st # "panicked") =>
        /\ \A i \in 1..Len(log) :
            log[i].e = ReadEvent("High") =>
                /\ i = Len(log)
                /\ log[i].n = 1
                /\ ret = "Ok"
                /\ pcA = "none"
        /\ (Len(log) >= 2 /\ log[2].e = ReadEvent("High")) =>
                Len(log) = 2 /\ IsQuery(log[1].e) /\ log[1].n = 1
        /\ ret = "Ok" => log # << >> /\ log[Len(log)].e = ReadEvent("High")
        /\ ret # "Err"
    /\ \A i \in 1..(Len(log) - 1) :
        log[i].e = ReadEvent("High") =>
            /\ ~IsQuery(log[i + 1].e)
            /\ log[i + 1].e # SleepEvent(AWAIT_BUSY_MS)

C8_AwaitUntimed ==
    /\ []C8_ReturnsAtFirstHigh
    /\ (InUntimedWait ~> (ret = "Ok" \/ st = "panicked"))

\* await_busy(None) has returned Ok after several polls that read Low.
C8_Witness ==
    /\ Returned("await_busy")
    /\ cur.t = None
    /\ ret = "Ok"
    /\ lowReads >= 2

(***************************************************************************)
(* C9.  await_busy(Some(d)) with a busy pin that reads Low at every poll   *)
(* returns the timeout error no later than one poll interval (50 ms) after *)
(* the deadline start + d; once a poll past the deadline has read Low it   *)
(* fails without pausing again.  The call starts at time 0 and pauses last *)
(* exactly as long as asked; pin and bus operations take no time.          *)
(***************************************************************************)
AllReadsLow == \A i \in 1..Len(log) : IsRead(log[i].e) => log[i].e.lvl = "Low"

C9_TimedTimeout ==
    (cur.name = "await_busy" /\ cur.t # None /\ st # "panicked") =>
        LET d == cur.t[1]
        IN  /\ now <= d + AWAIT_BUSY_MS
            /\ (st = "idle" /\ AllReadsLow) => ret = "Err"
            /\ ret = "Err" =>
                /\ log[Len(log)].e = ReadEvent("Low")
                /\ now > d
            /\ (log # << >> /\ IsSleep(log[Len(log)].e)) =>
                now - AWAIT_BUSY_MS <= d

\* A timed wait that failed exactly one poll interval after its deadline.
C9_Witness ==
    /\ Returned("await_busy")
    /\ cur.t # None
    /\ cur.t[1] > 0
    /\ ret = "Err"
    /\ AllReadsLow
    /\ now = cur.t[1] + AWAIT_BUSY_MS

(***************************************************************************)
(* C10.  A display or clear_screen request begins only when the panel is   *)
(* Idle: 0x10, 0x13 and 0x12 are never transmitted before on() has         *)
(* completed (power pin never driven high) or after off() has completed.   *)
(***************************************************************************)
C10_FramesOnlyWhenIdle ==
    \A i \in 1..Len(log) :
        (log[i].e.k = "spi" /\ log[i].e.role = "cmd"
            /\ log[i].e.buf \in {<<\h10>>, <<\h13>>, <<\h12>>}) =>
                panel = "Idle" /\ pw_pin = "High"


(***************************************************************************)
(* C11.  When a bus write returns an error the operation ends as a fatal   *)
(* fault: the failed bytes are not written again, and no bus write and no  *)
(* pin write follows the failure.                                          *)
(***************************************************************************)
IsFailedWrite(x) == IsSpi(x.e) /\ ~x.e.ok

\* A failed write is the last thing the call did, it was attempted once, and
\* the thread has panicked.
C11_FailedWriteIsLast ==
    \A i \in 1..Len(log) :
        IsFailedWrite(log[i]) =>
            /\ i = Len(log)
            /\ log[i].n = 1
            /\ st = "panicked"
            /\ life = "released"

\* After the panic nothing reaches the bus or a pin, and no call starts.
C11_NothingAfterPanic ==
    [][st = "panicked" =>
        /\ st' = "panicked"
        /\ UNCHANGED << log, pw_pin, rs_pin, dc_pin, cur, pc, pcA >>]_vars

C11_WriteErrorIsFatal == []C11_FailedWriteIsLast /\ C11_NothingAfterPanic

\* A clear_screen whose write failed in the middle of a frame.
C11_Witness ==
    /\ cur.name = "clear_screen"
    /\ st = "panicked"
    /\ Len(log) >= 3
    /\ IsFailedWrite(log[Len(log)])
    /\ log[Len(log)].e.role = "data"

(***************************************************************************)
(* C12.  display(image) with an image whose dimensions are not the panel's *)
(* is rejected with a size-mismatch error and transmits nothing: no bus    *)
(* write is made for it.                                                   *)
(***************************************************************************)
SizeMismatch(id) == Len(image_bytes(id)) # (WIDTH * HEIGHT) \div 8

C12_MismatchTransmitsNothing ==
    (cur.name = "display" /\ SizeMismatch(cur.img)) =>
        \A i \in 1..Len(log) : ~IsSpi(log[i].e)

(***************************************************************************)
(* C13.  For an image with a single black pixel at (x, y) on white, the    *)
(* buffer sent to the panel has every bit set except one: the bit at       *)
(* position y mod 8, counted from the most significant bit, of the byte at *)
(* index ((WIDTH - x - 1) * HEIGHT + y) / 8.                               *)
(***************************************************************************)
SinglePixelBuffer(x, y) ==
    [i \in 1..((WIDTH * HEIGHT) \div 8) |->
        IF i - 1 = ((WIDTH - x - 1) * HEIGHT + y) \div 8
        THEN 255 - 2 ^ (7 - (y % 8))
        ELSE 255]

\* The image "pixel" has its one black pixel at x = WIDTH - 1, y = 0.
C13_SinglePixelBit ==
    (InCall("display") /\ RefreshSent /\ cur.img = "pixel") =>
        DataFrom(CmdAt(\h13) + 1) = SinglePixelBuffer(WIDTH - 1, 0)

(***************************************************************************)
(* C14.  No operation transmits the partial-refresh tables: every 0x23     *)
(* command is followed by the 42 bytes of the full-refresh white table and *)
(* every 0x24 command by the 42 bytes of the full-refresh black table.     *)
(***************************************************************************)
IsPrefix(p, q) == Len(p) <= Len(q) /\ \A k \in 1..Len(p) : p[k] = q[k]

\* The data written after the command at log[i] is the table, or its beginning
\* while the bytes are still being written; it is the whole table as soon as
\* something other than data follows or the call has returned.
FollowedBy(i, table) ==
    LET d == DataFrom(i + 1)
    IN  /\ IsPrefix(d, table)
        /\ (st = "idle" \/ \E k \in (i + 1)..Len(log) :
                               IsSpi(log[k].e) /\ log[k].e.role = "cmd")
            => d = table

C14_FullTablesOnly ==
    \A i \in 1..Len(log) :
        /\ log[i].e = CmdWrite(\h23) => FollowedBy(i, FULL_LUT_W_REG_DATA)
        /\ log[i].e = CmdWrite(\h24) => FollowedBy(i, FULL_LUT_B_REG_DATA)

\* on() has returned with both tables loaded.
C14_Witness ==
    /\ Returned("on")
    /\ CmdAt(\h23) > 0
    /\ CmdAt(\h24) > CmdAt(\h23)
    /\ DataFrom(CmdAt(\h24) + 1) = FULL_LUT_B_REG_DATA

(***************************************************************************)
(* C15.  While the panel stays busy, await_busy spaces its polls by the    *)
(* 50 ms poll interval: between any two consecutive busy queries there is  *)
(* a 50 ms pause, in the timed and in the untimed variant.                 *)
(***************************************************************************)
OnePause == [e |-> SleepEvent(AWAIT_BUSY_MS), n |-> 1]

\* log[i] and log[j] are busy queries with no busy query between them.
ConsecutiveQueries(i, j) ==
    /\ i < j
    /\ IsQuery(log[i].e)
    /\ IsQuery(log[j].e)
    /\ \A k \in (i + 1)..(j - 1) : ~IsQuery(log[k].e)

FirstQuery(i) == IsQuery(log[i].e) /\ \A k \in 1..(i - 1) : ~IsQuery(log[k].e)

\* The claim as stated: a pause between any two consecutive queries.
C15_PauseBetweenPolls ==
    \A i, j \in 1..Len(log) :
        ConsecutiveQueries(i, j) => \E k \in (i + 1)..(j - 1) : log[k] = OnePause

\* C15 as the code has it: the second query of a wait follows the first
\* without a pause; any two later consecutive queries are separated by the
\* read of the pin (Low) and exactly one pause of 50 ms.
C15_PauseAfterSecondPoll ==
    \A i, j \in 1..Len(log) :
        ConsecutiveQueries(i, j) =>
            /\ log[i].n = 1
            /\ log[i + 1] = [e |-> ReadEvent("Low"), n |-> 1]
            /\ IF FirstQuery(i)
               THEN j = i + 2
               ELSE j = i + 3 /\ log[i + 2] = OnePause

\* A timed wait that returned Ok at its fourth query, after two pauses.
C15_Witness ==
    /\ Returned("await_busy")
    /\ cur.t # None
    /\ ret = "Ok"
    /\ lowReads = 3
    /\ Len(log) = 10
    /\ log[5] = OnePause
    /\ log[8] = OnePause

(***************************************************************************)
(* C16.  display and clear_screen each send the refresh command 0x12       *)
(* exactly once, after both frame writes are complete, and return only     *)
(* after a busy poll issued after 0x12 has read High.                      *)
(***************************************************************************)
IsRefresh(e) == IsSpi(e) /\ e.role = "cmd" /\ e.buf = CMD_TO_DISPLAY

IsDataRun(a, b) ==
    \A k \in a..b : IsSpi(log[k].e) /\ log[k].e.role = "data" /\ log[k].e.ok

\* What the call writes after 0x13: 1280 bytes for clear_screen, the whole
\* raster for display.
SecondFrameLen == IF cur.name = "clear_screen" THEN (WIDTH * HEIGHT) \div 8 ELSE Len(di)

C16_RefreshOnceThenWait ==
    cur.name \in {"display", "clear_screen"} =>
        LET r == CmdAt(\h12)
            old == CmdAt(\h10)
            new == CmdAt(\h13)
        IN  /\ \A i \in 1..Len(log) :
                IsRefresh(log[i].e) =>
                    /\ log[i].n = 1
                    /\ \A j \in 1..Len(log) : IsRefresh(log[j].e) => j = i
            /\ r > 0 =>
                /\ old = 1
                /\ old < new
                /\ new < r
                /\ IsDataRun(old + 1, new - 1)
                /\ IsDataRun(new + 1, r - 1)
                /\ DataLenFrom(old + 1) = (WIDTH * HEIGHT) \div 8
                /\ DataLenFrom(new + 1) = SecondFrameLen
                /\ \A k \in (r + 1)..Len(log) : IsSleep(log[k].e) \/ IsPoll(log[k].e)
            /\ st = "idle" =>
                /\ r > 0
                /\ Len(log) - 1 > r
                /\ log[Len(log)] = [e |-> ReadEvent("High"), n |-> 1]
                /\ log[Len(log) - 1] = [e |-> CmdWrite(\h71), n |-> 1]

\* display has returned after the panel was busy for a while after 0x12.
C16_Witness ==
    /\ Returned("display")
    /\ CmdAt(\h12) > 0
    /\ lowReads >= 2
    /\ log[Len(log)].e = ReadEvent("High")

(***************************************************************************)
(* C17.  Every busy wait made by on, display, clear_screen and off is the  *)
(* unbounded variant: none of them can end with a timeout, and while the   *)
(* busy pin reads Low the operation keeps polling, however long that       *)
(* lasts, and never returns an error.                                      *)
(***************************************************************************)
PublicOps == {"on", "display", "clear_screen", "off"}

C17_WaitsAreUntimed ==
    cur.name \in PublicOps =>
        /\ ret # "Err"
        /\ dead_time = -1
        /\ pcA \notin {"while", "check"}
        /\ pcA # "none" => Instr.op = "await" /\ Instr.t = None
        /\ st = "panicked" => log # << >> /\ IsFailedWrite(log[Len(log)])

\* A poll of an operation that reads Low leaves it polling.
C17_LowKeepsPolling ==
    [][(cur.name \in PublicOps /\ lowReads' = lowReads + 1) =>
        /\ st' = "run"
        /\ pcA' \in {"loop", "sleep"}
        /\ pc' = pc
        /\ ret' # "Err"]_vars

C17_OpsNeverTimeOut == []C17_WaitsAreUntimed /\ C17_LowKeepsPolling

\* on() still polling after the pin has read Low as often as the model lets it.
C17_Witness ==
    /\ cur.name = "on"
    /\ st = "run"
    /\ pcA = "sleep"
    /\ lowReads = MaxLowReads
    /\ now >= 200 + 2 + 200 + (MaxLowReads - 2) * AWAIT_BUSY_MS

(***************************************************************************)
(* C18.  Every read of the busy pin is immediately preceded by a write of  *)
(* the command byte 0x71 with the data/command pin low, with no other bus  *)
(* write in between; the poll reports busy exactly when the pin reads Low; *)
(* the busy pin is never written.                                          *)
(***************************************************************************)
C18_QueryThenRead ==
    /\ \A i \in 1..Len(log) :
        IsRead(log[i].e) =>
            /\ i > 1
            /\ log[i].n = 1
            /\ log[i - 1] = [e |-> CmdWrite(\h71), n |-> 1]
    /\ \A i \in 1..Len(log) :
        (IsQuery(log[i].e) /\ log[i].e.ok /\ i < Len(log)) => IsRead(log[i + 1].e)
    /\ (log # << >> /\ IsRead(log[Len(log)].e)) =>
        IF log[Len(log)].e.lvl = "Low"
        THEN ret # "Ok" /\ (pcA \in {"while", "check", "loop", "sleep"} \/ ret = "Err")
        ELSE ret = "Ok" /\ pcA = "none"
    /\ \A i \in 1..Len(log) : log[i].e.k = "pin" => log[i].e.pin \in {"pw", "rs"}

\* off() has returned after its wait read the pin Low and then High.
C18_Witness ==
    /\ Returned("off")
    /\ \E i \in 1..Len(log) : log[i].e = ReadEvent("Low")
    /\ \E i \in 1..Len(log) : log[i].e = ReadEvent("High")
    /\ pw_pin = "Low"

(***************************************************************************)
(* C20.  In both variants await_busy returns Ok only if the most recent    *)
(* read of the busy pin was High; in the timed variant it returns the      *)
(* timeout error only if the most recent read was Low.                     *)
(***************************************************************************)
\* The index of the most recent read of the busy pin in the log, 0 if none.
LastReadAt ==
    IF \E i \in 1..Len(log) : IsRead(log[i].e)
    THEN CHOOSE i \in 1..Len(log) :
            /\ IsRead(log[i].e)
            /\ \A j \in (i + 1)..Len(log) : ~IsRead(log[j].e)
    ELSE 0

C20_ResultMatchesLastRead ==
    cur.name \in PublicOps \cup {"await_busy"} =>
        /\ ret = "Ok" => LastReadAt > 0 /\ log[LastReadAt].e.lvl = "High"
        /\ ret = "Err" =>
            /\ LastReadAt > 0
            /\ log[LastReadAt].e.lvl = "Low"
            /\ cur.name = "await_busy" /\ cur.t # None
        /\ (cur.name = "await_busy" /\ st = "idle") => ret \in {"Ok", "Err"}

\* A timed wait that returned Ok: Low at the first polls, High before the
\* deadline had passed.
C20_Witness ==
    /\ Returned("await_busy")
    /\ cur.t # None
    /\ ret = "Ok"
    /\ lowReads = 2
    /\ now = AWAIT_BUSY_MS
    /\ log[LastReadAt].e.lvl = "High"

(***************************************************************************)
(* C19.  The full lifecycle new, on, clear_screen, display, clear_screen,  *)
(* off runs to completion without a panic and ends with the power pin      *)
(* driven low, provided no bus write fails and the busy pin eventually     *)
(* reads High after each wait begins.                                      *)
(***************************************************************************)
NoBusFailure == \A i \in 1..Len(log) : ~IsFailedWrite(log[i])

\* The last call of test_display, off(), has returned.
LifecycleDone ==
    /\ cur.name = "off"
    /\ cur.k = Len(test_display)
    /\ st = "idle"
    /\ life = "live"

C19_NoPanicPowerLow ==
    /\ NoBusFailure => st # "panicked"
    /\ LifecycleDone => pw_pin = "Low" /\ panel = "Off" /\ NoBusFailure
    /\ cur.name = "drop" => pw_pin = "Low"
    /\ (life = "live" /\ st = "idle" /\ TestPos > 0) =>
        /\ cur.name = test_display[TestPos]
        /\ pw_pin = IF TestPos = Len(test_display) THEN "Low" ELSE "High"

C19_Lifecycle ==
    /\ []C19_NoPanicPowerLow
    /\ <>(~NoBusFailure \/ (LifecycleDone /\ pw_pin = "Low"))

\* off(), the fifth call, has returned with the power pin low after a wait in
\* which the pin read Low before it read High.
C19_Witness ==
    /\ LifecycleDone
    /\ pw_pin = "Low"
    /\ lowReads >= 1
    /\ NoBusFailure

====
